---- MODULE Spec2Model ----
(***************************************************************************)
(* The EditClient page of micro-finance-app                                *)
(* (src/src/pages/clients/EditClient.tsx): the load of a client and of the *)
(* branch list, the edit form's submit handler, and the collaborators the  *)
(* page calls (fetchClientById, supabase, updateClient, toast, navigate).  *)
(*                                                                         *)
(* JavaScript runs one handler segment at a time: every action below is    *)
(* the code between two awaits (or a whole synchronous handler).  Each     *)
(* await is a point where the other actions interleave.                    *)
(***************************************************************************)
EXTENDS Integers, Sequences, FiniteSets, Bags, TLC

\* Bounds of the model.
MaxLoads == 2       \* runs of the effect (the mount and the route changes)
MaxSubmits == 2     \* invocations of handleSubmit

\* JavaScript null / undefined, and the falsy test of the render (line 145).
Null == "<null>"
Undefined == "<undefined>"
Truthy(s) == s \notin {Null, Undefined, ""}

\* Route parameters: useParams may yield no id at all.
NoId == "<no id>"
Ids == {"42", "7"}

Fields == {"id", "name", "dateOfBirth", "branchId"}

\* The record the store holds for an identifier.  Client 42 carries a
\* branchId that is in no branch list (a stale association).
StoredClient(i) ==
    [id |-> i,
     name |-> "Ada",
     dateOfBirth |-> "1990-01-01",
     branchId |-> IF i = "42" THEN "9" ELSE "1"]

\* Messages the store may put in a failure result; "" is an empty message.
StoreMessages == {"Client not found", ""}

\* What fetchClientById(id) may produce: a result object or a throw.
\* data is <<>> for null/absent and <<record>> otherwise; a success result
\* carries no message property.
FetchClientOutcomes(i) ==
    {[kind |-> "result", success |-> TRUE, data |-> <<StoredClient(i)>>, message |-> Undefined]}
    \cup {[kind |-> "result", success |-> TRUE, data |-> <<>>, message |-> Undefined]}
    \cup {[kind |-> "result", success |-> FALSE, data |-> <<>>, message |-> m] : m \in StoreMessages}
    \cup {[kind |-> "throw", success |-> FALSE, data |-> <<>>, message |-> Undefined]}

\* Lists the branches query may return.
BranchLists ==
    { <<>>,
      <<[id |-> "1", name |-> "Central"], [id |-> "2", name |-> "North"]>> }

\* What the supabase query may produce: {data, error}; data null is
\* modelled by hasData = FALSE.
FetchBranchesOutcomes ==
    {[error |-> TRUE, hasData |-> FALSE, data |-> <<>>]}
    \cup {[error |-> FALSE, hasData |-> FALSE, data |-> <<>>]}
    \cup {[error |-> FALSE, hasData |-> TRUE, data |-> l] : l \in BranchLists}

\* What updateClient may produce: a result, a thrown Error, or a thrown
\* value that is no Error.
UpdateOutcomes ==
    {[kind |-> "result", success |-> TRUE, message |-> Undefined],
     [kind |-> "result", success |-> FALSE, message |-> "Update failed"],
     [kind |-> "throwError", success |-> FALSE, message |-> "connection reset"],
     [kind |-> "throwOther", success |-> FALSE, message |-> Undefined]}

\* The objects the form may pass to onSubmit (data: any).  A field equal
\* to Undefined is a key the object does not have.
Edits ==
    {[id |-> Undefined, name |-> "Bea", dateOfBirth |-> "1991-02-02", branchId |-> "1"],
     [id |-> "99", name |-> Undefined, dateOfBirth |-> Undefined, branchId |-> "3"],
     [id |-> Undefined, name |-> "Bea", dateOfBirth |-> "1991-02-02", branchId |-> "9"]}

\* The fallback list of lines 51-55.
FallbackBranches ==
    <<[id |-> "1", name |-> "Main Branch"],
      [id |-> "2", name |-> "East Branch"],
      [id |-> "3", name |-> "West Branch"]>>

GenericError == "An unexpected error occurred"

WarningToast ==
    [variant |-> "warning",
     title |-> "Using mock branch data",
     description |-> "No active branches found in the database"]

SuccessToast ==
    [variant |-> "default",
     title |-> "Client updated",
     description |-> "The client has been updated successfully"]

ErrorToast(msg) ==
    [variant |-> "destructive",
     title |-> "Error updating client",
     description |-> msg]

VARIABLES
    mounted,       \* the component instance is alive (not torn down)
    id,            \* useParams().id
    client,        \* <<>> (null) or <<record>>
    branches,      \* sequence of {id, name}
    isLoading,
    isSubmitting,
    error,         \* Null or a message
    loads,         \* the runs of loadData that have not returned yet
    updates,       \* the calls of updateClient that have not settled yet
    started,       \* number of runs of the effect so far
    submits,       \* number of invocations of handleSubmit so far
    toasts,        \* the calls of toast so far (a bag of notifications)
    navLog         \* the calls of navigate so far, in order

vars == <<mounted, id, client, branches, isLoading, isSubmitting, error,
          loads, updates, started, submits, toasts, navLog>>

\* toast(...) of use-toast: a process-wide channel, not tied to the component.
toast(t) == toasts (+) SetToBag({t})

\* A state setter of a component that was unmounted changes nothing.
SetState(old, new) == IF mounted THEN new ELSE old

\* s without its k-th element: an async call that returned is gone.
Remove(s, k) == SubSeq(s, 1, k - 1) \o SubSeq(s, k + 1, Len(s))

\* Mutant of NewLoad: both fetches issued at once, as Promise.all would.
NewLoadConcurrent(i) == [id |-> i, rec |-> "pending", ref |-> "pending"]

\* A run of loadData at its first await (line 31): the record fetch is in
\* flight, the branches query has not been issued.
NewLoad(i) == [id |-> i, rec |-> "pending", ref |-> "notIssued"]

Init ==
    /\ mounted = TRUE
    /\ id \in Ids \cup {NoId}
    /\ client = <<>>
    /\ branches = <<>>
    /\ isLoading = TRUE
    /\ isSubmitting = FALSE
    /\ error = Null
    /\ loads = IF id = NoId THEN <<>> ELSE <<NewLoad(id)>>
    /\ updates = <<>>
    /\ started = 1
    /\ submits = 0
    /\ toasts = EmptyBag
    /\ navLog = <<>>

\* Lines 26-31: loadData up to its first await.
loadData(i) ==
    /\ isLoading' = SetState(isLoading, TRUE)
    /\ error' = SetState(error, Null)
    /\ loads' = Append(loads, NewLoad(i))

\* The route parameter changes while the page stays mounted: the effect of
\* lines 24-74 runs again (dependency [id]); nothing cancels an older run.
RouteChange(newId) ==
    /\ mounted
    /\ newId # id
    /\ started < MaxLoads
    /\ started' = started + 1
    /\ id' = newId
    /\ loadData(newId)
    /\ UNCHANGED <<mounted, client, branches, isSubmitting, updates, submits,
                   toasts, navLog>>

\* Lines 31-37 (and 63-68 when the call throws): fetchClientById settles.
ClientFetched(l, o) ==
    /\ loads[l].rec = "pending"
    /\ IF o.kind = "throw"
       THEN /\ error' = SetState(error, GenericError)
            /\ isLoading' = SetState(isLoading, FALSE)
            /\ client' = client
            /\ loads' = Remove(loads, l)
       ELSE IF o.success /\ o.data # <<>>
       THEN /\ client' = SetState(client, o.data)
            /\ loads' = [loads EXCEPT ![l].rec = "ok", ![l].ref = "pending"]
            /\ UNCHANGED <<error, isLoading>>
       ELSE /\ error' = SetState(error, o.message)
            /\ loads' = [loads EXCEPT ![l].rec = "fail", ![l].ref = "pending"]
            /\ UNCHANGED <<client, isLoading>>
    /\ UNCHANGED <<mounted, id, branches, isSubmitting, updates, started,
                   submits, toasts, navLog>>

\* Mutant of BranchesFetched: an empty result is installed as it is, with
\* no fallback and no warning.
BranchesFetchedNoFallback(l, o) ==
    /\ loads[l].ref = "pending"
    /\ IF o.error
       THEN /\ error' = SetState(error, GenericError)
            /\ UNCHANGED <<branches, toasts>>
       ELSE /\ branches' = SetState(branches, o.data)
            /\ UNCHANGED <<error, toasts>>
    /\ isLoading' = SetState(isLoading, FALSE)
    /\ loads' = Remove(loads, l)
    /\ UNCHANGED <<mounted, id, client, isSubmitting, updates, started,
                   submits, navLog>>

\* Mutant of BranchesFetched: a query error is treated like an empty result
\* (the fallback list and the warning) instead of being thrown.
BranchesFetchedFallbackOnError(l, o) ==
    /\ loads[l].ref = "pending"
    /\ IF ~o.error /\ o.hasData /\ Len(o.data) > 0
       THEN /\ branches' = SetState(branches, o.data)
            /\ UNCHANGED <<error, toasts>>
       ELSE /\ branches' = SetState(branches, FallbackBranches)
            /\ toasts' = toast(WarningToast)
            /\ UNCHANGED error
    /\ isLoading' = SetState(isLoading, FALSE)
    /\ loads' = Remove(loads, l)
    /\ UNCHANGED <<mounted, id, client, isSubmitting, updates, started,
                   submits, navLog>>

\* Lines 40-62 and 63-68: the branches query settles and loadData returns.
BranchesFetched(l, o) ==
    /\ loads[l].ref = "pending"
    /\ IF o.error
       THEN /\ error' = SetState(error, GenericError)
            /\ UNCHANGED <<branches, toasts>>
       ELSE IF o.hasData /\ Len(o.data) > 0
       THEN /\ branches' = SetState(branches, o.data)
            /\ UNCHANGED <<error, toasts>>
       ELSE /\ branches' = SetState(branches, FallbackBranches)
            /\ toasts' = toast(WarningToast)
            /\ UNCHANGED error
    /\ isLoading' = SetState(isLoading, FALSE)
    /\ loads' = Remove(loads, l)
    /\ UNCHANGED <<mounted, id, client, isSubmitting, updates, started,
                   submits, navLog>>

\* Lines 143-161: the form, and with it onSubmit, exists only in this branch
\* of the render.
FormRendered ==
    /\ mounted
    /\ ~isLoading
    /\ ~Truthy(error)
    /\ client # <<>>

\* Line 83.
BranchExists(bs, data) == \E k \in 1..Len(bs) : bs[k].id = data.branchId

\* Mutant of MergedRecord: the spreads in the other order, {...data,
\* ...client, dateOfBirth: data.dateOfBirth}: the record's fields win.
MergedRecordClientWins(c, data) ==
    [f \in Fields |-> IF f = "dateOfBirth" THEN data.dateOfBirth ELSE c[f]]

\* Lines 88-91: {...client, ...data, dateOfBirth: data.dateOfBirth}.
MergedRecord(c, data) ==
    [f \in Fields |->
        IF f = "dateOfBirth" THEN data.dateOfBirth
        ELSE IF data[f] = Undefined THEN c[f] ELSE data[f]]

\* Mutant of handleSubmit: the branch check of lines 83-85 is missing.
handleSubmitUnchecked(data) ==
    /\ FormRendered
    /\ submits < MaxSubmits
    /\ client # <<>>
    /\ submits' = submits + 1
    /\ isSubmitting' = SetState(isSubmitting, TRUE)
    /\ updates' = Append(updates, MergedRecord(client[1], data))
    /\ UNCHANGED <<mounted, id, client, branches, isLoading, error, loads,
                   started, navLog, toasts>>

\* Mutant of handleSubmit: the branch check also covers the loaded record's
\* own branchId.
handleSubmitChecksRecord(data) ==
    /\ FormRendered
    /\ submits < MaxSubmits
    /\ client # <<>>
    /\ submits' = submits + 1
    /\ IF ~BranchExists(branches, data) \/ ~BranchExists(branches, client[1])
       THEN /\ isSubmitting' = SetState(isSubmitting, FALSE)
            /\ toasts' = toast(ErrorToast("Selected branch does not exist"))
            /\ UNCHANGED updates
       ELSE /\ isSubmitting' = SetState(isSubmitting, TRUE)
            /\ updates' = Append(updates, MergedRecord(client[1], data))
            /\ UNCHANGED toasts
    /\ UNCHANGED <<mounted, id, client, branches, isLoading, error, loads,
                   started, navLog>>

\* Lines 76-87 (and 109-117 when the branch check throws): handleSubmit up
\* to its await.
handleSubmit(data) ==
    /\ FormRendered
    /\ submits < MaxSubmits
    /\ client # <<>>
    /\ submits' = submits + 1
    /\ IF ~BranchExists(branches, data)
       THEN /\ isSubmitting' = SetState(isSubmitting, FALSE)
            /\ toasts' = toast(ErrorToast("Selected branch does not exist"))
            /\ UNCHANGED updates
       ELSE /\ isSubmitting' = SetState(isSubmitting, TRUE)
            /\ updates' = Append(updates, MergedRecord(client[1], data))
            /\ UNCHANGED toasts
    /\ UNCHANGED <<mounted, id, client, branches, isLoading, error, loads,
                   started, navLog>>

\* navigate('/clients'): the route changes and the page is unmounted.
navigate(by) ==
    /\ navLog' = Append(navLog, by)
    /\ mounted' = FALSE

\* Mutant of UpdateReturned: isSubmitting is reset on the failure paths only,
\* so a successful update leaves the page in Submitting until it is gone.
UpdateReturnedNoReset(u, o) ==
    /\ IF o.kind = "result" /\ o.success
       THEN /\ toasts' = toast(SuccessToast)
            /\ navigate("handleSubmit")
            /\ UNCHANGED isSubmitting
       ELSE /\ toasts' = toast(ErrorToast(IF o.kind = "throwOther" THEN GenericError
                                                ELSE o.message))
            /\ isSubmitting' = SetState(isSubmitting, FALSE)
            /\ UNCHANGED <<mounted, navLog>>
    /\ updates' = Remove(updates, u)
    /\ UNCHANGED <<id, client, branches, isLoading, error, loads, started,
                   submits>>

\* Mutant of UpdateReturned: a failure result is reported with the generic
\* message instead of result.message.
UpdateReturnedGenericMessage(u, o) ==
    /\ isSubmitting' = SetState(isSubmitting, FALSE)
    /\ IF o.kind = "result" /\ o.success
       THEN /\ toasts' = toast(SuccessToast)
            /\ navigate("handleSubmit")
       ELSE /\ toasts' = toast(ErrorToast(GenericError))
            /\ UNCHANGED <<mounted, navLog>>
    /\ updates' = Remove(updates, u)
    /\ UNCHANGED <<id, client, branches, isLoading, error, loads, started,
                   submits>>

\* Lines 94-117: updateClient settles.
UpdateReturned(u, o) ==
    /\ isSubmitting' = SetState(isSubmitting, FALSE)
    /\ IF o.kind = "result" /\ o.success
       THEN /\ toasts' = toast(SuccessToast)
            /\ navigate("handleSubmit")
       ELSE /\ toasts' = toast(ErrorToast(IF o.kind = "throwOther" THEN GenericError
                                                ELSE o.message))
            /\ UNCHANGED <<mounted, navLog>>
    /\ updates' = Remove(updates, u)
    /\ UNCHANGED <<id, client, branches, isLoading, error, loads, started,
                   submits>>

\* Lines 124 and 150: the "Back to Clients" / "Return to Clients" buttons.
BackToClients ==
    /\ mounted
    /\ navigate("button")
    /\ UNCHANGED <<id, client, branches, isLoading, isSubmitting, error, loads,
                   updates, started, submits, toasts>>

Next ==
    \/ \E newId \in Ids : RouteChange(newId)
    \/ \E l \in 1..Len(loads) : \E o \in FetchClientOutcomes(loads[l].id) : ClientFetched(l, o)
    \/ \E l \in 1..Len(loads) : \E o \in FetchBranchesOutcomes : BranchesFetched(l, o)
    \/ \E data \in Edits : handleSubmit(data)
    \/ \E u \in 1..Len(updates) : \E o \in UpdateOutcomes : UpdateReturned(u, o)
    \/ BackToClients

Spec == Init /\ [][Next]_vars

(***************************************************************************)
(* The workflow state, as the render of lines 143-161 derives it.          *)
(***************************************************************************)
Loading == isLoading
ErrorShown == ~isLoading /\ Truthy(error)
Ready == ~isLoading /\ ~Truthy(error) /\ client # <<>> /\ ~isSubmitting
Submitting == ~isLoading /\ ~Truthy(error) /\ client # <<>> /\ isSubmitting

\* The page has run loadData once and that run has returned.
SingleLoadFinished == started = 1 /\ id # NoId /\ loads = <<>>

\* C1: a load whose record fetch fails ends in Error (isLoading false and a
\* non-empty message shown), and the workflow does not call navigate.  With
\* a single load, client is still null at the end exactly when the record
\* fetch failed.
C1_RecordFailureEndsInError ==
    (SingleLoadFinished /\ client = <<>>)
        => /\ mounted => ErrorShown
           /\ \A k \in 1..Len(navLog) : navLog[k] # "handleSubmit"

\* C2: a submit request made while a submit is in flight is a no-op: no
\* call of updateClient and no notification.
C2_SubmitWhileSubmittingIsNoOp ==
    [][(isSubmitting /\ updates # <<>> /\ submits' = submits + 1)
          => (updates' = updates /\ toasts' = toasts)]_vars

\* C3: after teardown nothing fires: no state mutation, no toast, no
\* navigate.
C3_NothingAfterTeardown ==
    [][~mounted => (/\ UNCHANGED <<client, branches, isLoading, isSubmitting, error>>
                    /\ toasts' = toasts
                    /\ navLog' = navLog)]_vars

\* C4: when the record fetch has failed, the return of the branches query
\* changes neither the message shown nor the notifications emitted, whatever
\* the query returns.
C4_ReferenceOutcomeIrrelevant ==
    [][(mounted /\ started = 1 /\ loads # <<>> /\ loads[1].rec = "fail"
          /\ loads' = <<>>)
          => (error' = error /\ toasts' = toasts)]_vars

\* updateClient returned {success: true} / the branches query returned no
\* rows / the branches query returned an error.
IsSuccess(o) == o.kind = "result" /\ o.success
IsEmptyResult(o) == ~o.error /\ (~o.hasData \/ Len(o.data) = 0)
IsQueryError(o) == o.error

\* C5 as stated: when updateClient returns success, navigate('/clients') is
\* invoked exactly once and isSubmitting is not reset to false.
C5_SuccessKeepsSubmitting ==
    [][\A u \in 1..Len(updates) : \A o \in UpdateOutcomes :
          (mounted /\ isSubmitting /\ IsSuccess(o) /\ UpdateReturned(u, o))
              => (navLog' = Append(navLog, "handleSubmit") /\ isSubmitting')]_vars

\* C5 amended: when updateClient returns success, navigate('/clients') is
\* invoked exactly once for that submit and the page is torn down; on a page
\* still mounted the same step resets isSubmitting to false and changes no
\* other state; once the page is torn down its state never changes again.
C5_SuccessNavigatesOnce ==
    [][/\ \A u \in 1..Len(updates) : \A o \in UpdateOutcomes :
            (IsSuccess(o) /\ UpdateReturned(u, o))
                => /\ navLog' = Append(navLog, "handleSubmit")
                   /\ ~mounted'
                   /\ mounted => ~isSubmitting'
                   /\ UNCHANGED <<client, branches, isLoading, error>>
       /\ ~mounted => UNCHANGED <<client, branches, isLoading, isSubmitting, error>>
      ]_vars

\* Witness of C5: a submit made from Ready succeeded: the workflow called
\* navigate once, the page is gone and isSubmitting is false.
C5_Witness ==
    /\ navLog = <<"handleSubmit">>
    /\ ~mounted
    /\ ~isSubmitting
    /\ submits = 1
    /\ updates = <<>>

\* C6: a submit from Ready whose branchId is the id of no loaded branch makes
\* no call of updateClient, leaves the workflow in Ready with the record and
\* the branches unchanged, and emits exactly one error notification.
C6_UnknownBranchRejected ==
    [][\A data \in Edits :
          (Ready /\ ~BranchExists(branches, data) /\ handleSubmit(data))
              => /\ updates' = updates
                 /\ Ready'
                 /\ client' = client
                 /\ branches' = branches
                 /\ toasts' = toasts (+) SetToBag({ErrorToast("Selected branch does not exist")})
      ]_vars

\* Witness of C6: the only submit so far was rejected: one error
\* notification, no call of updateClient, the workflow in Ready.
C6_Witness ==
    /\ mounted
    /\ submits = 1
    /\ Ready
    /\ updates = <<>>
    /\ CopiesIn(ErrorToast("Selected branch does not exist"), toasts) = 1
    /\ CopiesIn(SuccessToast, toasts) = 0
    /\ navLog = <<>>

\* C7: in a load whose record fetch succeeded and whose branches query
\* returns no rows, the load ends in Ready with exactly the three fallback
\* branches, and the one notification of the load is the warning.
C7_EmptyListFallsBack ==
    [][\A o \in FetchBranchesOutcomes :
          (mounted /\ started = 1 /\ loads # <<>> /\ loads[1].rec = "ok"
             /\ IsEmptyResult(o) /\ BranchesFetched(1, o))
              => /\ Ready'
                 /\ branches' = FallbackBranches
                 /\ Len(branches') = 3
                 /\ toasts' = SetToBag({WarningToast})
      ]_vars

\* Witness of C7: the load has ended in Ready on the fallback branches.
C7_Witness ==
    /\ SingleLoadFinished
    /\ mounted
    /\ Ready
    /\ branches = FallbackBranches
    /\ CopiesIn(WarningToast, toasts) = 1
    /\ submits = 0

\* C8: when the branches query returns an error, the load ends in Error even
\* though the record fetch succeeded and the record was stored; the branches
\* are left as they were (no fallback) and no notification is emitted.
C8_ReferenceErrorIsFatal ==
    [][\A l \in 1..Len(loads) : \A o \in FetchBranchesOutcomes :
          (mounted /\ loads[l].rec = "ok" /\ IsQueryError(o) /\ BranchesFetched(l, o))
              => /\ ErrorShown'
                 /\ error' = GenericError
                 /\ client' = client
                 /\ client' # <<>>
                 /\ branches' = branches
                 /\ (started = 1 => branches' = <<>>)
                 /\ toasts' = toasts
      ]_vars

\* Witness of C8: the load has ended in Error with the record stored, no
\* branches and no notification.
C8_Witness ==
    /\ SingleLoadFinished
    /\ mounted
    /\ ErrorShown
    /\ client # <<>>
    /\ branches = <<>>
    /\ toasts = EmptyBag

C10_ExactlyOneState ==
    /\ Cardinality({w \in {"Loading", "Error", "Ready", "Submitting"} :
          \/ w = "Loading" /\ Loading
          \/ w = "Error" /\ ErrorShown
          \/ w = "Ready" /\ Ready
          \/ w = "Submitting" /\ Submitting}) = 1
    /\ isSubmitting => (~isLoading /\ ~Truthy(error))

\* C11: updateClient is called only by a submit made while the workflow is
\* in Ready (never in Loading, Error or Submitting), and the Error state is
\* left only by leaving the page (navigate, or the route going to another
\* record).
C11_UpdateOnlyFromReady ==
    [][/\ Len(updates') > Len(updates) => Ready
       /\ (mounted /\ ErrorShown /\ ~ErrorShown') => (~mounted' \/ id' # id)
      ]_vars

\* updateClient returned {success: false, message}.
IsFailureResult(o) == o.kind = "result" /\ ~o.success

\* C12: when updateClient returns a failure result for the one submit in
\* flight, the workflow is back in Ready with the record and the branches
\* unchanged, exactly one notification is emitted and it carries the store's
\* message, navigate is not called, and no call of updateClient is made
\* without a new invocation of handleSubmit.
C12_UpdateFailureBackToReady ==
    [][/\ \A u \in 1..Len(updates) : \A o \in UpdateOutcomes :
            (mounted /\ Submitting /\ Len(updates) = 1 /\ IsFailureResult(o)
               /\ UpdateReturned(u, o))
                => /\ Ready'
                   /\ client' = client
                   /\ branches' = branches
                   /\ toasts' = toasts (+) SetToBag({ErrorToast(o.message)})
                   /\ navLog' = navLog
                   /\ updates' = <<>>
       /\ Len(updates') > Len(updates) => submits' = submits + 1
      ]_vars

\* Witness of C12: the only submit so far was accepted and the store
\* reported a failure: back in Ready with the store's message notified.
C12_Witness ==
    /\ mounted
    /\ Ready
    /\ submits = 1
    /\ updates = <<>>
    /\ navLog = <<>>
    /\ CopiesIn(ErrorToast("Update failed"), toasts) = 1

\* C13: a record whose own branchId is the id of no loaded branch still
\* brings the load to Ready, and a submit from Ready calls updateClient
\* exactly when the submitted branchId is the id of a loaded branch, whatever
\* the record's branchId is.
C13_OnlySubmittedBranchValidated ==
    [][/\ \A o \in FetchBranchesOutcomes :
            (mounted /\ started = 1 /\ loads # <<>> /\ loads[1].rec = "ok"
               /\ ~IsQueryError(o) /\ BranchesFetched(1, o))
                => Ready'
       /\ \A data \in Edits :
            (Ready /\ handleSubmit(data))
                => (Len(updates') = Len(updates) + 1 <=> BranchExists(branches, data))
      ]_vars

\* Witness of C13: record 42 (branchId "9") was loaded with the branches
\* "1" and "2", an edit with branchId "1" was submitted and the update
\* succeeded.
C13_Witness ==
    /\ client = <<StoredClient("42")>>
    /\ ~BranchExists(branches, client[1])
    /\ \E k \in 1..Len(branches) : branches[k].id = "2"
    /\ Len(branches) = 2
    /\ submits = 1
    /\ navLog = <<"handleSubmit">>
    /\ CopiesIn(SuccessToast, toasts) = 1

\* C14: whenever the workflow is in Ready or in Submitting, the loaded
\* branches are not empty.
C14_ReadyHasBranches == (Ready \/ Submitting) => branches # <<>>

\* The messages of the Errors updateClient may throw.
ThrownMessages == {o.message : o \in {x \in UpdateOutcomes : x.kind = "throwError"}}

\* C15: no notification and no error shown on the page carries the message
\* of an error thrown by an external call: a thrown error is surfaced as the
\* generic message.
C15_ThrownErrorsAreGeneric ==
    /\ \A t \in BagToSet(toasts) : t.description \notin ThrownMessages
    /\ error \notin ThrownMessages

\* The argument of the call of updateClient made by this step.
NewPayload == updates'[Len(updates')]

\* C16 as stated: the record passed to updateClient has every field present
\* in the edit replaced by the edit's value and every other field, the
\* identifier and dateOfBirth included, equal to the loaded record's value.
C16_AbsentFieldsKept ==
    [][\A data \in Edits :
          (handleSubmit(data) /\ Len(updates') = Len(updates) + 1)
              => \A f \in Fields :
                    NewPayload[f] = IF data[f] # Undefined THEN data[f]
                                    ELSE client[1][f]
      ]_vars

\* C16 amended: the record passed to updateClient has every field present in
\* the edit replaced by the edit's value and every other field except
\* dateOfBirth, the identifier included, equal to the loaded record's value;
\* dateOfBirth is always the edit's dateOfBirth, undefined when the edit has
\* none.
C16_MergedPayload ==
    [][\A data \in Edits :
          (handleSubmit(data) /\ Len(updates') = Len(updates) + 1)
              => /\ \A f \in Fields \ {"dateOfBirth"} :
                        NewPayload[f] = IF data[f] # Undefined THEN data[f]
                                        ELSE client[1][f]
                 /\ NewPayload.dateOfBirth = data.dateOfBirth
                 /\ (data.id = Undefined => NewPayload.id = client[1].id)
      ]_vars

\* Witness of C16: a call of updateClient in flight for the edit that has
\* an id and a branchId but no name and no dateOfBirth: the edit's id and
\* branchId, the loaded record's name, and no dateOfBirth.
C16_Witness ==
    \E u \in 1..Len(updates) :
        /\ client # <<>>
        /\ updates[u].id = "99"
        /\ updates[u].branchId = "3"
        /\ updates[u].name = client[1].name
        /\ updates[u].dateOfBirth = Undefined

\* C17: a warning notification is emitted only by a load that ends in Ready
\* on the fallback branches; a load that ends in Error emits no notification
\* and leaves the branches as they were.
C17_WarningOnlyOnReady ==
    [][/\ (mounted /\ started = 1
             /\ CopiesIn(WarningToast, toasts') > CopiesIn(WarningToast, toasts))
          => (Ready' /\ branches' = FallbackBranches)
       /\ (mounted /\ started = 1 /\ loads # <<>> /\ loads' = <<>> /\ ErrorShown')
          => (toasts' = toasts /\ branches' = branches)
      ]_vars

\* C18: after one route change, isLoading is true as long as the load for
\* the current identifier is in flight, and once both loads have returned
\* with the form shown, the record shown is the one of the current
\* identifier.
C18_LatestLoadWins ==
    (mounted /\ started = 2)
        => /\ (\E l \in 1..Len(loads) : loads[l].id = id) => isLoading
           /\ (loads = <<>> /\ (Ready \/ Submitting)) => client[1].id = id

(***************************************************************************)
(* Every external call eventually returns or throws: the settling of each  *)
(* fetchClientById, branches query and updateClient call is weakly fair.   *)
(* What the user does (route changes, submits, Back) is not.               *)
(***************************************************************************)
FairSpec ==
    /\ Spec
    /\ \A l \in 1..MaxLoads :
          /\ WF_vars(l \in 1..Len(loads)
                       /\ \E o \in FetchClientOutcomes(loads[l].id) : ClientFetched(l, o))
          /\ WF_vars(l \in 1..Len(loads)
                       /\ \E o \in FetchBranchesOutcomes : BranchesFetched(l, o))
    /\ \A u \in 1..MaxSubmits :
          WF_vars(u \in 1..Len(updates) /\ \E o \in UpdateOutcomes : UpdateReturned(u, o))

\* The progress half of C19: a load in flight eventually returns, and on a
\* page still mounted isLoading eventually becomes false; every call of
\* updateClient eventually settles, emitting exactly one notification when
\* it does, and on a page still mounted isSubmitting eventually becomes
\* false (or the page is left).
C19_Progress ==
    /\ (loads # <<>>) ~> (loads = <<>>)
    /\ (isLoading /\ loads # <<>>) ~> (~isLoading \/ ~mounted)
    /\ (updates # <<>>) ~> (updates = <<>>)
    /\ isSubmitting ~> (~isSubmitting \/ ~mounted)
    /\ [][Len(updates') < Len(updates)
            => BagCardinality(toasts') = BagCardinality(toasts) + 1]_vars

\* C19: no transient state is stuck: the progress above, and the load of a
\* page that runs one load ends, when it returns, in Ready or in Error.
C19_NoStuckTransientState ==
    /\ C19_Progress
    /\ [][(mounted /\ started = 1 /\ loads # <<>> /\ loads' = <<>>)
            => (Ready' \/ ErrorShown')]_vars
====
